---- MODULE Spec2Model ----
(***************************************************************************)
(* Model of update-repo.py: one run of main() is a sequential program      *)
(* (pc) over a working directory (tree, files) and the external commands   *)
(* it issues (log).  A run may be followed by another run with the same    *)
(* arguments on the file system the previous run left behind.              *)
(*                                                                         *)
(* A path string is represented by the list of its "/"-separated segments, *)
(* i.e. by str.split("/") of it: "./" is <<".", "">>, "./pkg/.github" is   *)
(* <<".", "pkg", ".github">>, "../dev/test.yml" is <<"..","dev","test.yml">>.*)
(* A file's content is the list of its lexemes (template tokens and text). *)
(***************************************************************************)
EXTENDS Integers, Sequences, FiniteSets, TLC

VARIABLES
    tree,          \* the directories under the working directory (locations)
    files,         \* the files: location -> content
    args,          \* sys.argv[1:]
    pc,            \* position of the run in main()
    status,        \* "running", or how the run ended
    source_file,   \* main's locals
    news_file,
    dest_dir,
    username,
    todo,          \* os.walk: directories still to be yielded, in order
    visited,       \* history: the directories os.walk has yielded in this run
    cur,           \* the arguments of the copy_file / create_PR call in progress
    log,           \* what this run did so far: commands run, files copied, rendered
    filesAtStart,  \* history: files when this run started
    cmdFailed,     \* history: a run_command of this run exited non-zero
    authFailed,    \* history: gh api user exited non-zero in this run
    leftBehind     \* history: directories handled (file copied) by an earlier run that aborted

vars == <<tree, files, args, pc, status, source_file, news_file, dest_dir, username,
          todo, visited, cur, log, filesAtStart, cmdFailed, authFailed, leftBehind>>

----------------------------------------------------------------------------
(* Bounds *)

MaxLen == 2

----------------------------------------------------------------------------
(* Strings and paths *)

Last(s) == s[Len(s)]

\* str.split("/")[-1]
basename(path) == Last(path)

\* repo_file_path.split("/")[0]: the first segment instead of the last
DestDirOf_first(repo_file_path) == repo_file_path[1]

\* dest_dir = repo_file_path.split("/")[-1]
DestDirOf(repo_file_path) == basename(repo_file_path)

\* os.path.join(a, name) for a relative name of one segment
join(a, name) ==
    IF Last(a) = "" THEN SubSeq(a, 1, Len(a) - 1) \o <<name>> ELSE a \o <<name>>

IsNameSeg(s) == s # "." /\ s # ""

\* The location a relative path names, seen from the working directory
Resolve(path) == SelectSeq(path, IsNameSeg)

\* The top of the walk, "./"
TOP == <<".", "">>

\* package_dir_path.split('/')[1]
PackageName(package_dir_path) == package_dir_path[2]

\* package_name.split('.')[0] == "diffpy", over the package names of Trees
OrgName(package_name) ==
    IF package_name \in {"diffpy", "diffpy.utils"} THEN "diffpy" ELSE "Billingegroup"

----------------------------------------------------------------------------
(* The file system *)

\* The names of the sub-directories of the directory at location loc
DirNames(t, loc) ==
    { Last(d) : d \in { x \in t : Len(x) = Len(loc) + 1
                                  /\ SubSeq(x, 1, Len(loc)) = loc } }

\* os.path.exists
exists(path, fs, t) == Resolve(path) \in DOMAIN fs \/ Resolve(path) \in t

WriteFile(fs, loc, content) ==
    [l \in DOMAIN fs \cup {loc} |-> IF l = loc THEN content ELSE fs[l]]

\* The orders in which os.scandir may list a set of names
Perms(S) ==
    { s \in [1..Cardinality(S) -> S] : \A i, j \in 1..Cardinality(S) : s[i] = s[j] => i = j }

----------------------------------------------------------------------------
(* Template rendering *)

VAR_PROJECT == "{{ project_name }}"
VAR_OTHER == "{{ version }}"
NEWLINE == "\n"
Tokens == {VAR_PROJECT, VAR_OTHER, NEWLINE, "name: "}

RECURSIVE SeqsUpTo(_, _)
SeqsUpTo(S, n) ==
    IF n = 0 THEN {<<>>}
    ELSE LET shorter == SeqsUpTo(S, n - 1)
         IN shorter \cup { Append(s, x) : s \in shorter, x \in S }

Contents == SeqsUpTo(Tokens, MaxLen)

NonEmpty(s) == s # ""

\* Template(content): the lexer drops one trailing newline of the source
\* (keep_trailing_newline is off by default)
Template(content) ==
    IF Len(content) > 0 /\ Last(content) = NEWLINE
    THEN SubSeq(content, 1, Len(content) - 1)
    ELSE content

\* template.render(project_name=package_name): project_name gives the package
\* name, any other variable is undefined and gives the empty string
render(template, package_name) ==
    SelectSeq([i \in 1..Len(template) |->
                  IF template[i] = VAR_PROJECT THEN package_name
                  ELSE IF template[i] = VAR_OTHER THEN ""
                  ELSE template[i]],
              NonEmpty)

\* What update_project_name writes back for a file holding content
update_project_name(content, package_name) ==
    render(Template(content), package_name)

----------------------------------------------------------------------------
(* The inputs: working directories and command lines *)

WORKFLOW_ARG == <<".github", "workflows">>

Trees ==
    { \* the layout the script is written for: <pkg>/news and <pkg>/.github/workflows
      { <<"pkg">>, <<"pkg", "news">>, <<"pkg", ".github">>,
        <<"pkg", ".github", "workflows">> },
      \* no news directory, and names that only resemble the ones looked for
      { <<"pkg">>, <<"pkg", ".github">>, <<"pkg", ".github", "workflows">>,
        <<"pkg", "newsletter">>, <<"pkg", "newsletter", "workflows.bak">> },
      \* one directory holding both a workflows and a news directory
      { <<"pkg">>, <<"pkg", "news">>, <<"pkg", "workflows">> },
      \* two repositories, the second with a news directory only
      { <<"diffpy.utils">>, <<"diffpy.utils", "news">>, <<"diffpy.utils", ".github">>,
        <<"diffpy.utils", ".github", "workflows">>, <<"pkg">>, <<"pkg", "news">> },
      \* one repository with two workflows directories
      { <<"pkg">>, <<"pkg", "news">>, <<"pkg", ".github">>,
        <<"pkg", ".github", "workflows">>, <<"pkg", "docs">>,
        <<"pkg", "docs", "workflows">> } }

ArgChoices ==
    { <<<<"test.yml">>, WORKFLOW_ARG, <<"build-workflow.rst">>>>,
      <<<<"..", "dev", "test.yml">>, WORKFLOW_ARG, <<"..", "dev", "build-workflow.rst">>>>,
      <<<<"test.yml">>, WORKFLOW_ARG, <<"..", "dev", "changes.rst">>>>,
      <<<<"test.yml">>, WORKFLOW_ARG>> }

NEWS_TEXT == <<"news entry">>
STALE_TEXT == <<"stale copy">>
OLD_TEXT == <<"already there">>

\* The files named on the command line, each with its content
ArgFiles(argv, srcContent) ==
    LET withSrc == WriteFile(<<>>, Resolve(argv[1]), srcContent)
    IN IF Len(argv) >= 3 THEN WriteFile(withSrc, Resolve(argv[3]), NEWS_TEXT) ELSE withSrc

\* Files of the same names lying in the working directory itself
LocalFiles(fs, argv) ==
    LET names == { basename(argv[i]) : i \in {1, 3} \cap DOMAIN argv }
        missing == { n \in names : <<n>> \notin DOMAIN fs }
    IN [l \in DOMAIN fs \cup { <<n>> : n \in missing } |->
           IF l \in DOMAIN fs THEN fs[l] ELSE STALE_TEXT]

\* Destination files that are in place before the first run
PlacedFiles(fs, t, argv, pre) ==
    LET dirs == t \cup {<<>>}
        wf == IF "workflow" \in pre
              THEN { d \o <<basename(argv[2]), basename(argv[1])>> :
                       d \in { x \in dirs : basename(argv[2]) \in DirNames(t, x) } }
              ELSE {}
        nw == IF "news" \in pre /\ Len(argv) >= 3
              THEN { d \o <<"news", basename(argv[3])>> :
                       d \in { x \in dirs : "news" \in DirNames(t, x) } }
              ELSE {}
    IN [l \in DOMAIN fs \cup wf \cup nw |-> IF l \in DOMAIN fs THEN fs[l] ELSE OLD_TEXT]

----------------------------------------------------------------------------
(* The run *)

NoUser == "<unset>"
NoCall == [package_dir_path |-> <<>>, file |-> "", dest_file_path |-> <<>>]

Event(cmd, cwd, file, data, out) ==
    [cmd |-> cmd, cwd |-> cwd, file |-> file, data |-> data, out |-> out]

Init ==
    /\ tree \in Trees
    /\ args \in ArgChoices
    /\ \E srcContent \in Contents, local \in BOOLEAN, pre \in SUBSET {"workflow", "news"} :
         LET named == ArgFiles(args, srcContent)
             here == IF local THEN LocalFiles(named, args) ELSE named
         IN files = PlacedFiles(here, tree, args, pre)
    /\ pc = "start"
    /\ status = "running"
    /\ source_file = ""
    /\ news_file = ""
    /\ dest_dir = ""
    /\ username = NoUser
    /\ todo = <<TOP>>
    /\ visited = {}
    /\ cur = NoCall
    /\ log = <<>>
    /\ filesAtStart = files
    /\ cmdFailed = FALSE
    /\ authFailed = FALSE
    /\ leftBehind = {}

\* main, lines 146-152, with the news argument optional
main_args_optional(argv) ==
    [raised |-> FALSE,
     source_file |-> basename(argv[1]),
     news_file |-> IF Len(argv) >= 3 THEN basename(argv[3]) ELSE "build-workflow.rst",
     dest_dir |-> DestDirOf(argv[2])]

\* main, lines 146-152: sys.argv[3] raises IndexError when there is no third argument
main_args(argv) ==
    IF Len(argv) < 3
    THEN [raised |-> TRUE, source_file |-> "", news_file |-> "", dest_dir |-> ""]
    ELSE [raised |-> FALSE,
          source_file |-> basename(argv[1]),
          news_file |-> basename(argv[3]),
          dest_dir |-> DestDirOf(argv[2])]

ParseArgs ==
    /\ pc = "start"
    /\ LET r == main_args(args)
       IN /\ source_file' = r.source_file
          /\ news_file' = r.news_file
          /\ dest_dir' = r.dest_dir
          /\ pc' = IF r.raised THEN "halt" ELSE "auth"
          /\ status' = IF r.raised THEN "index_error" ELSE "running"
    /\ UNCHANGED <<tree, files, args, username, todo, visited, cur, log, filesAtStart,
                   cmdFailed, authFailed, leftBehind>>

\* get_github_username with the failure swallowed
get_github_username_swallow(ok) ==
    [raised |-> FALSE, username |-> IF ok THEN "alice" ELSE ""]

\* get_github_username: CalledProcessError becomes a RuntimeError
get_github_username(ok) ==
    IF ok THEN [raised |-> FALSE, username |-> "alice"]
    ELSE [raised |-> TRUE, username |-> NoUser]

GetGithubUsername ==
    /\ pc = "auth"
    /\ \E ok \in BOOLEAN :
         LET r == get_github_username(ok)
         IN /\ authFailed' = ~ok
            /\ username' = r.username
            /\ pc' = IF r.raised THEN "halt" ELSE "walk"
            /\ status' = IF r.raised THEN "auth_error" ELSE "running"
    /\ UNCHANGED <<tree, files, args, source_file, news_file, dest_dir, todo, visited, cur, log,
                   filesAtStart, cmdFailed, leftBehind>>

\* the two tests in the other order: the news branch shadows the workflows branch
MatchKind_prefer_news(dest, dirnames) ==
    IF "news" \in dirnames THEN "news"
    ELSE IF dest \in dirnames THEN "dest"
    ELSE "none"

\* main, lines 158 and 169: if dest_dir in dirnames ... elif 'news' in dirnames
MatchKind(dest, dirnames) ==
    IF dest \in dirnames THEN "dest"
    ELSE IF "news" \in dirnames THEN "news"
    ELSE "none"

\* the existence test left out
ShouldCopy_always(dest_file_path, fs, t) == TRUE

\* main, lines 163 and 174: if not os.path.exists(dest_file_path)
ShouldCopy(dest_file_path, fs, t) == ~exists(dest_file_path, fs, t)

\* os.walk('./') has no directory left to yield: main returns
WalkEnd ==
    /\ pc = "walk"
    /\ todo = <<>>
    /\ pc' = "halt"
    /\ status' = "done"
    /\ UNCHANGED <<tree, files, args, source_file, news_file, dest_dir, username, todo, visited,
                   cur, log, filesAtStart, cmdFailed, authFailed, leftBehind>>

\* One iteration of the for loop of main up to the first thing it does for the
\* directory: os.walk yields the next directory (top-down, its sub-directories
\* in the order of the listing) and the loop body picks its branch
Walk ==
    /\ pc = "walk"
    /\ todo # <<>>
    /\ LET package_dir_path == Head(todo)
           dirnames == DirNames(tree, Resolve(package_dir_path))
           kind == MatchKind(dest_dir, dirnames)
           package_workflow_dir_path == join(package_dir_path, dest_dir)
           dest_file_path == join(package_workflow_dir_path, source_file)
           package_news_dir_path == join(package_dir_path, "news")
           dest_news_file_path == join(package_news_dir_path, news_file)
       IN /\ visited' = visited \cup {package_dir_path}
          /\ \E order \in Perms(dirnames) :
               todo' = [i \in 1..Len(order) |-> join(package_dir_path, order[i])]
                          \o Tail(todo)
          /\ IF kind = "dest" /\ ShouldCopy(dest_file_path, files, tree)
             THEN /\ pc' = "copy"
                  /\ cur' = [package_dir_path |-> package_dir_path,
                             file |-> source_file,
                             dest_file_path |-> dest_file_path]
             ELSE IF kind = "news" /\ ShouldCopy(dest_news_file_path, files, tree)
             THEN /\ pc' = "checkout_main"
                  /\ cur' = [package_dir_path |-> package_dir_path,
                             file |-> news_file,
                             dest_file_path |-> dest_news_file_path]
             ELSE /\ pc' = "walk"
                  /\ cur' = NoCall
    /\ UNCHANGED <<tree, files, args, status, source_file, news_file, dest_dir, username,
                   log, filesAtStart, cmdFailed, authFailed, leftBehind>>

\* subprocess.run without check=True: a non-zero exit is ignored
run_command_unchecked(ok) == TRUE

\* run_command: subprocess.run(check=True) returns when the command exits 0 and
\* raises CalledProcessError otherwise
run_command(ok) == ok

\* One run_command(command, cwd=cur.package_dir_path) of the call in progress,
\* after which the run is at next
Run(cmd, file, next) ==
    /\ \E ok \in BOOLEAN :
         /\ log' = Append(log, Event(cmd, cur.package_dir_path, file, <<>>, <<>>))
         /\ cmdFailed' = (cmdFailed \/ ~ok)
         /\ pc' = IF run_command(ok) THEN next ELSE "halt"
         /\ status' = IF run_command(ok) THEN "running" ELSE "aborted"
    /\ UNCHANGED <<tree, files, args, source_file, news_file, dest_dir, username, todo, visited,
                   cur, filesAtStart, authFailed, leftBehind>>

\* sync_with_main_branch
GitCheckoutMain ==
    /\ pc = "checkout_main"
    /\ Run("git checkout main", "main", "pull")
GitPullUpstream ==
    /\ pc = "pull"
    /\ Run("git pull upstream main", "main", "checkout_b")

\* new_branch(package_dir_path, source_file)
GitCheckoutNewBranch ==
    /\ pc = "checkout_b"
    /\ Run("git checkout -b", source_file, "copy")

\* copy_file, lines 76-80: shutil.copy2(source_file, dest_file_path), the source
\* being the name copy_file was given, looked up from the working directory
CopyFile ==
    /\ pc = "copy"
    /\ LET src == Resolve(<<cur.file>>)
       IN IF src \in DOMAIN files
          THEN /\ files' = WriteFile(files, Resolve(cur.dest_file_path), files[src])
               /\ log' = Append(log, Event("copy", cur.package_dir_path, cur.file,
                                           files[src], <<>>))
               /\ pc' = IF cur.file # "build-workflow.rst" THEN "render" ELSE "walk"
               /\ status' = "running"
          ELSE /\ pc' = "halt"
               /\ status' = "file_not_found"
               /\ UNCHANGED <<files, log>>
    /\ UNCHANGED <<tree, args, source_file, news_file, dest_dir, username, todo, visited, cur,
                   filesAtStart, cmdFailed, authFailed, leftBehind>>

\* copy_file, lines 82-83: update_project_name(dest_file_path, package_name)
UpdateProjectName ==
    /\ pc = "render"
    /\ LET dest == Resolve(cur.dest_file_path)
           package_name == PackageName(cur.package_dir_path)
           updated == update_project_name(files[dest], package_name)
       IN /\ files' = [files EXCEPT ![dest] = updated]
          /\ log' = Append(log, Event("render", cur.package_dir_path, package_name,
                                      files[dest], updated))
    /\ pc' = "add_file"
    /\ UNCHANGED <<tree, args, status, source_file, news_file, dest_dir, username, todo, visited,
                   cur, filesAtStart, cmdFailed, authFailed, leftBehind>>

\* create_PR(package_dir_path, source_file, username, package_name, org_name)
GitAddFile ==
    /\ pc = "add_file"
    /\ Run("git add", <<"workflows", cur.file>>, "add_news")
GitAddNews ==
    /\ pc = "add_news"
    /\ Run("git add", <<"..", "news", "build-workflow.rst">>, "commit")
GitCommit ==
    /\ pc = "commit"
    /\ Run("git commit", cur.file, "push")
GitPush ==
    /\ pc = "push"
    /\ Run("git push origin", cur.file, "set_default")
GhSetDefault ==
    /\ pc = "set_default"
    /\ Run("gh repo set-default",
           <<OrgName(PackageName(cur.package_dir_path)),
             PackageName(cur.package_dir_path)>>,
           "pr_create")
GhPrCreate ==
    /\ pc = "pr_create"
    /\ Run("gh pr create", <<username, cur.file>>, "walk")

\* The script is started again with the same arguments in the same working directory
Restart ==
    /\ pc = "halt"
    /\ pc' = "start"
    /\ status' = "running"
    /\ source_file' = ""
    /\ news_file' = ""
    /\ dest_dir' = ""
    /\ username' = NoUser
    /\ todo' = <<TOP>>
    /\ visited' = {}
    /\ cur' = NoCall
    /\ log' = <<>>
    /\ filesAtStart' = files
    /\ cmdFailed' = FALSE
    /\ authFailed' = FALSE
    /\ leftBehind' = IF status \in {"aborted", "file_not_found"}
                     THEN leftBehind \cup { log[i].cwd : i \in { j \in DOMAIN log :
                                                                  log[j].cmd = "copy" } }
                     ELSE leftBehind
    /\ UNCHANGED <<tree, files, args>>

Next ==
    \/ ParseArgs
    \/ GetGithubUsername
    \/ Walk
    \/ WalkEnd
    \/ GitCheckoutMain
    \/ GitPullUpstream
    \/ GitCheckoutNewBranch
    \/ CopyFile
    \/ UpdateProjectName
    \/ GitAddFile
    \/ GitAddNews
    \/ GitCommit
    \/ GitPush
    \/ GhSetDefault
    \/ GhPrCreate
    \/ Restart

Spec == Init /\ [][Next]_vars

----------------------------------------------------------------------------
(* What the properties below speak of, read off the state and the arguments *)

\* The directory at walk path d has a child named as the last segment of the second
\* argument and the workflow file is in it, or it has no such child, has a child
\* named "news" and the news file is in it
PlacedIn(d, fs) ==
    LET names == DirNames(tree, Resolve(d))
    IN \/ /\ Last(args[2]) \in names
          /\ (Resolve(d) \o <<Last(args[2]), Last(args[1])>>) \in DOMAIN fs
       \/ /\ Last(args[2]) \notin names
          /\ "news" \in names
          /\ (Resolve(d) \o <<"news", Last(args[3])>>) \in DOMAIN fs

\* The directory at walk path d is matched and the file to be placed there is missing
MissingIn(d, fs) ==
    LET names == DirNames(tree, Resolve(d))
    IN /\ Last(args[2]) \in names \/ "news" \in names
       /\ ~PlacedIn(d, fs)

EventsAt(d) == { i \in DOMAIN log : log[i].cwd = d }

EventsOf(cmd) == { i \in DOMAIN log : log[i].cmd = cmd }

VersionControl == {"git checkout main", "git pull upstream main", "git checkout -b",
                   "git add", "git commit", "git push origin"}

\* C1: when the walk comes to a matched directory whose destination file already
\* exists, that visit copies and writes nothing and runs no git or gh command:
\* files and log are as before and the loop goes on to the next directory.
C1_SkipLeavesStateUnchanged ==
    [][(pc = "walk" /\ todo # <<>> /\ PlacedIn(Head(todo), files))
         => (files' = files /\ log' = log /\ pc' = "walk")]_vars

C1_Witness ==
    /\ pc = "walk"
    /\ \E d \in visited :
         /\ PlacedIn(d, filesAtStart)
         /\ EventsAt(d) = {}
         /\ d \notin leftBehind
    /\ files = filesAtStart

\* C2: no copy, commit or push happens for a match before the main branch was
\* synced and the topic branch created for it (read generously: for a match of the
\* same repository, earlier in the run), and a push precedes each pull request.
C2_SyncAndBranchFirst ==
    /\ \A i \in DOMAIN log :
         log[i].cmd \in {"copy", "git commit", "git push origin"}
           => \E j, k \in 1..(i - 1) :
                /\ j < k
                /\ log[j].cmd = "git pull upstream main"
                /\ log[k].cmd = "git checkout -b"
                /\ PackageName(log[j].cwd) = PackageName(log[i].cwd)
                /\ PackageName(log[k].cwd) = PackageName(log[i].cwd)
    /\ \A i \in EventsOf("gh pr create") :
         \E j \in 1..(i - 1) : log[j].cmd = "git push origin" /\ log[j].cwd = log[i].cwd

\* Only the project_name variable replaced, all else kept
ReplaceOnly(content, name) ==
    [i \in DOMAIN content |-> IF content[i] = VAR_PROJECT THEN name ELSE content[i]]

\* C3: update_project_name writes back the copied content with every occurrence of
\* the project_name variable replaced by the package name and nothing else changed.
C3_RenderTouchesOnlyProjectName ==
    \A i \in EventsOf("render") : log[i].out = ReplaceOnly(log[i].data, log[i].file)

\* C4: every copy and every command of the run happens at a directory that has a
\* direct child named exactly as the last segment of the second argument, or
\* exactly "news".
C4_ActionsOnlyAtMatches ==
    \A i \in DOMAIN log :
        LET names == DirNames(tree, Resolve(log[i].cwd))
        IN Last(args[2]) \in names \/ "news" \in names

C4_Witness ==
    /\ EventsOf("copy") # {}
    /\ EventsOf("git add") # {}
    /\ \E d \in visited :
         /\ "newsletter" \in DirNames(tree, Resolve(d))
         /\ EventsAt(d) = {}
    /\ \E d \in visited :
         /\ "workflows.bak" \in DirNames(tree, Resolve(d))
         /\ EventsAt(d) = {}

\* C5: once a command run through run_command has failed, the run is over
\* (aborted), and nothing more happens in it: no command, no copy, no rendering, no
\* further directory.  Only a new invocation of the script (pc' = "start") follows.
C5_FailFast ==
    [][/\ cmdFailed => (pc = "halt" /\ status = "aborted")
       /\ cmdFailed' /\ pc' # "start" => (pc' = "halt" /\ status' = "aborted")
       /\ cmdFailed /\ pc' # "start" => UNCHANGED <<files, log, todo, visited>>]_vars

C5_Witness ==
    /\ cmdFailed
    /\ status = "aborted"
    /\ todo # <<>>
    /\ EventsOf("copy") # {}
    /\ log[Len(log)].cmd \in VersionControl

\* C6: when the forge CLI fails to give the user's handle the run ends with the
\* authentication error, and nothing was walked, copied or run.
C6_AuthFailureBeforeWalk ==
    authFailed => /\ pc = "halt"
                  /\ status = "auth_error"
                  /\ log = <<>>
                  /\ visited = {}
                  /\ todo = <<TOP>>
                  /\ files = filesAtStart

C6_Witness ==
    /\ authFailed
    /\ status = "auth_error"
    /\ \E d \in tree : MissingIn(<<".">> \o d, files)

\* The repositories (package names) with a matched directory missing its file
Affected ==
    { PackageName(d) : d \in { x \in visited : MissingIn(x, filesAtStart) } }

PullRequestsFor(package) ==
    Cardinality({ i \in EventsOf("gh pr create") : PackageName(log[i].cwd) = package })

\* C7: a run in which no command failed has opened exactly one pull request for each
\* repository holding a matched directory that missed its file, and none for others.
C7_OnePullRequestPerRepository ==
    (pc = "halt" /\ status = "done")
      => \A package \in { PackageName(d) : d \in visited } :
           PullRequestsFor(package) = IF package \in Affected THEN 1 ELSE 0

\* C8: what is copied into a workflows directory is the file at the path given as
\* first argument, and what is copied into a news directory is the file at the path
\* given as third argument.
C8_CopiesTheFileAtTheGivenPath ==
    \A i \in EventsOf("copy") :
        /\ log[i].file = Last(args[1]) => log[i].data = filesAtStart[Resolve(args[1])]
        /\ log[i].file = Last(args[3]) => log[i].data = filesAtStart[Resolve(args[3])]

\* C9 as stated: with two arguments the run does not end at the parsing of the
\* arguments.
C9_NewsArgumentOptional ==
    Len(args) = 2 => status # "index_error"

\* C9, amended: the news-file argument is required; with two arguments the run ends
\* with an error at the parsing of the arguments, before the identity is resolved,
\* before the walk and before any copy or command.
C9_NewsArgumentRequired ==
    (Len(args) = 2 /\ pc # "start")
      => /\ pc = "halt"
         /\ status = "index_error"
         /\ username = NoUser
         /\ ~authFailed
         /\ visited = {}
         /\ log = <<>>
         /\ files = filesAtStart

C9_Witness ==
    /\ Len(args) = 2
    /\ status = "index_error"
    /\ \E d \in tree : Last(args[2]) \in DirNames(tree, d)

\* C10: a directory whose destination file was copied by an earlier run that then
\* aborted is skipped by every later run: nothing is staged, committed, pushed or
\* opened as a pull request from it, nor is anything else done there.
C10_LeftBehindIsSkipped ==
    \A i \in DOMAIN log : log[i].cwd \notin leftBehind

C10_Witness ==
    /\ status = "done"
    /\ visited \cap leftBehind # {}
    /\ \A i \in DOMAIN log : log[i].cwd \notin leftBehind

====
